---- MODULE Spec2Model ----
(***************************************************************************)
(* Model of strip-mysql-compatibility-comments.py: the streaming scanner   *)
(* process_dump_stream and its delimiter matcher find_conditional_end.     *)
(*                                                                         *)
(* Text is a sequence of characters; a character is a one-character string *)
(* ("NL" stands for the line feed, "sup2" for U+00B2 SUPERSCRIPT TWO, a    *)
(* character for which str.isdigit() holds and int() raises ValueError).   *)
(* Indices are Python's: 0-based, slices are half-open.                    *)
(*                                                                         *)
(* The model starts from the decoded text that fin.readline() returns and  *)
(* ends at the strings passed to fout.write(); the bytes of the two files  *)
(* (UTF-8 with replacement, the newline translation of open()) and the     *)
(* percentage lines of the progress report are not part of it.             *)
(***************************************************************************)
EXTENDS Integers, Sequences, FiniteSets, TLC

(***************************************************************************)
(* Bounds of the model.                                                    *)
(***************************************************************************)
\* longest input, in tokens, of the line-fed specification
MaxTokens == 4
\* longest input, in tokens, of the chunk-fed specification
MaxFeedTokens == 3
\* most chunk boundaries cut into an input of the chunk-fed specification
MaxCuts == 2

(***************************************************************************)
(* Python primitives.                                                      *)
(***************************************************************************)
\* the value of Python's None where an index is expected
None == 0 - 1

\* process_dump_stream(..., version_threshold=80000), as main() calls it
version_threshold == 80000

\* s[a:b] for 0 <= a
Slice(s, a, b) == SubSeq(s, a + 1, IF b > Len(s) THEN Len(s) ELSE b)

\* s[a:]
SliceFrom(s, a) == SubSeq(s, a + 1, Len(s))

\* s[i]
At(s, i) == s[i + 1]

DecimalDigits == {"0", "1", "2", "3", "4", "5", "6", "7", "8", "9"}

\* str.isdigit() of one character: the decimal digits and the other
\* characters of Unicode's digit classes, here "sup2"
isdigit(c) == c \in DecimalDigits \cup {"sup2"}

DigitValue(c) ==
    CASE c = "0" -> 0 [] c = "1" -> 1 [] c = "2" -> 2 [] c = "3" -> 3
      [] c = "4" -> 4 [] c = "5" -> 5 [] c = "6" -> 6 [] c = "7" -> 7
      [] c = "8" -> 8 [] c = "9" -> 9

RECURSIVE DecimalValue(_)
\* the value of a run of decimal digits, leading zeros allowed. Python's
\* integers are unbounded; a value of 10^8 or more is represented by 10^8,
\* which leaves every comparison with version_threshold as it is.
DecimalValue(s) ==
    IF s = <<>> THEN 0
    ELSE LET v == DecimalValue(SubSeq(s, 1, Len(s) - 1)) IN
         IF v >= 100000000 \/ 10 * v + DigitValue(s[Len(s)]) >= 100000000
         THEN 100000000
         ELSE 10 * v + DigitValue(s[Len(s)])

\* int(version_str) raises ValueError
ValueError(s) == s = <<>> \/ \E i \in 1..Len(s) : s[i] \notin DecimalDigits

\* try: version = int(version_str)  except ValueError: version = 0
version_of(version_str) ==
    IF ValueError(version_str) THEN 0 ELSE DecimalValue(version_str)

RECURSIVE find_from(_, _)
\* line.find("/*!", pos): the least index >= pos where "/*!" starts, or -1
find_from(line, pos) ==
    IF pos + 3 > Len(line) THEN 0 - 1
    ELSE IF Slice(line, pos, pos + 3) = <<"/", "*", "!">> THEN pos
    ELSE find_from(line, pos + 1)

RECURSIVE digit_run_end(_, _)
\* while j < len(s) and s[j].isdigit(): j += 1
digit_run_end(s, j) ==
    IF j < Len(s) /\ isdigit(At(s, j)) THEN digit_run_end(s, j + 1) ELSE j

RECURSIVE scan_first_closer(_, _, _)
\* the token loop without the nesting depth: the first "*/" is the closer
scan_first_closer(comment, k, depth) ==
    IF ~(k < Len(comment) - 1) THEN 0 - 1
    ELSE IF Slice(comment, k, k + 2) = <<"*", "/">> THEN k
    ELSE scan_first_closer(comment, k + 1, depth)

RECURSIVE scan_tokens(_, _, _)
\* the token loop of find_conditional_end from index k at nesting depth
\* `depth`: the index of the closer, or None
scan_tokens(comment, k, depth) ==
    IF ~(k < Len(comment) - 1) THEN None
    ELSE LET two == Slice(comment, k, k + 2) IN
         IF two = <<"/", "*">> THEN scan_tokens(comment, k + 2, depth + 1)
         ELSE IF two = <<"*", "/">>
              THEN IF depth = 0 THEN k
                   ELSE scan_tokens(comment, k + 2, depth - 1)
         ELSE scan_tokens(comment, k + 1, depth)

RECURSIVE scan_visits_by_one(_, _, _)
\* the token loop that moves on by one character after a "/*" or a "*/" too
scan_visits_by_one(comment, k, depth) ==
    IF ~(k < Len(comment) - 1) THEN <<>>
    ELSE LET two  == Slice(comment, k, k + 2)
             here == <<[k |-> k, depth |-> depth]>>
         IN IF two = <<"/", "*">>
            THEN here \o scan_visits_by_one(comment, k + 1, depth + 1)
            ELSE IF two = <<"*", "/">>
                 THEN IF depth = 0 THEN here
                      ELSE here \o scan_visits_by_one(comment, k + 1, depth - 1)
            ELSE here \o scan_visits_by_one(comment, k + 1, depth)

RECURSIVE scan_visits_unguarded(_, _, _)
\* the token loop that lowers the depth at every "*/" and stops at none
scan_visits_unguarded(comment, k, depth) ==
    IF ~(k < Len(comment) - 1) THEN <<>>
    ELSE LET two  == Slice(comment, k, k + 2)
             here == <<[k |-> k, depth |-> depth]>>
         IN IF two = <<"/", "*">>
            THEN here \o scan_visits_unguarded(comment, k + 2, depth + 1)
            ELSE IF two = <<"*", "/">>
                 THEN here \o scan_visits_unguarded(comment, k + 2, depth - 1)
            ELSE here \o scan_visits_unguarded(comment, k + 1, depth)

RECURSIVE scan_visits(_, _, _)
\* the iterations of the token loop of find_conditional_end from index k at
\* nesting depth `depth`: the values of k and depth at the head of each,
\* the one that ends the loop at the closer included
scan_visits(comment, k, depth) ==
    IF ~(k < Len(comment) - 1) THEN <<>>
    ELSE LET two  == Slice(comment, k, k + 2)
             here == <<[k |-> k, depth |-> depth]>>
         IN IF two = <<"/", "*">>
            THEN here \o scan_visits(comment, k + 2, depth + 1)
            ELSE IF two = <<"*", "/">>
                 THEN IF depth = 0 THEN here
                      ELSE here \o scan_visits(comment, k + 2, depth - 1)
            ELSE here \o scan_visits(comment, k + 1, depth)

\* find_conditional_end(comment) -> (end_pos, digits_end)
find_conditional_end(comment) ==
    LET digits_end == digit_run_end(comment, 3) IN
    IF Slice(comment, 3, digits_end) = <<>>
    THEN [end_pos |-> None, digits_end |-> None]
    ELSE [end_pos |-> scan_tokens(comment, digits_end, 0),
          digits_end |-> digits_end]

RECURSIVE readlines(_)
\* what the successive calls of fin.readline() return on a text: each line
\* with its line feed, the last one possibly without
readlines(t) ==
    IF t = <<>> THEN <<>>
    ELSE LET nl == CHOOSE i \in 1..(Len(t) + 1) :
                       /\ i = Len(t) + 1 \/ t[i] = "NL"
                       /\ \A h \in 1..(i - 1) : t[h] # "NL"
             e  == IF nl > Len(t) THEN Len(t) ELSE nl
         IN <<SubSeq(t, 1, e)>> \o readlines(SubSeq(t, e + 1, Len(t)))

(***************************************************************************)
(* Inputs.                                                                 *)
(***************************************************************************)
Opener == <<"/", "*", "!">>

Closer == <<"*", "/">>

RECURSIVE Flatten(_)
Flatten(ss) == IF ss = <<>> THEN <<>> ELSE Head(ss) \o Flatten(Tail(ss))

Tokens ==
    { <<"/", "*", "!", "7", "9", "9", "9", "9">>,
      <<"/", "*", "!", "8", "0", "0", "0", "0">>,
      <<"/", "*", "!">>,
      <<"/", "*">>,
      <<"*", "/">>,
      <<"/">>,
      <<"*">>,
      <<"a">>,
      <<"NL">>,
      <<"0">>,
      <<"sup2">> }

FeedTokens ==
    { <<"/", "*", "!">>,
      <<"/", "*">>,
      <<"*", "/">>,
      <<"0">>,
      <<"8", "0", "0", "0", "0">>,
      <<"a">>,
      <<"NL">> }

TextsOver(toks, n) ==
    { Flatten(ts) : ts \in UNION { [1..m -> toks] : m \in 0..n } }

\* the examples of the specification's section 8, and some more
ExLegacy ==
    <<"/", "*", "!", "7", "9", "9", "9", "9", " ", "X", " ", "*", "/">>

ExCurrent ==
    <<"/", "*", "!", "8", "0", "0", "0", "0", " ", "X", " ", "*", "/">>

ExLegacyAmid ==
    <<"a", " ", "/", "*", "!", "7", "9", "9", "9", "9", " ", "X", " ", "*", "/",
      " ", "b">>

ExCurrentAmid ==
    <<"a", " ", "/", "*", "!", "8", "0", "0", "0", "0", " ", "X", " ", "*", "/",
      " ", "b">>

ExLeadingZeroLegacy ==
    <<"/", "*", "!", "0", "0", "7", "9", "9", "9", "9", " ", "X", " ", "*",
      "/">>

ExLeadingZeroCurrent ==
    <<"/", "*", "!", "0", "8", "0", "0", "0", "0", " ", "X", " ", "*", "/">>

ExNested ==
    <<"/", "*", "!", "5", "0", "0", "0", "3", " ", "B", "E", "G", "I", "N", " ",
      "/", "*", " ", "n", "o", "t", "e", " ", "*", "/", " ", "E", "N", "D", " ",
      "*", "/">>

ExLookalike ==
    <<"/", "*", "!", " ", "n", "o", "t", " ", "d", "i", "g", "i", "t", "s", " ",
      "*", "/">>

ExSplit ==
    <<"/", "*", "!", "5", "0", "0", "0", "3", " ", "f", "o", "o", " ", "*", "/">>

ExSplitLines ==
    <<"/", "*", "!", "5", "0", "0", "0", "3", " ", "f", "o", "NL", "o", " ",
      "*", "/">>

ExTruncated ==
    <<"t", "e", "x", "t", " ", "/", "*", "!", "5", "0", "0", "0", "3", " ",
      "i", "n", "c", "o", "m", "p", "l", "e", "t", "e">>

ExMultiple ==
    <<"A", " ", "/", "*", "!", "5", "0", "0", "0", "3", " ", "B", " ", "*", "/",
      " ", "C", " ", "/", "*", "!", "8", "0", "0", "1", "0", " ", "D", " ", "*",
      "/", " ", "E">>

ExLineComment ==
    <<"#", " ", "/", "*", "!", "5", "0", "0", "0", "3", " ", "x", " ", "*", "/",
      "NL", "y">>

ExInnerVersioned ==
    <<"/", "*", "!", "5", "0", "0", "0", "3", " ", "/", "*", "!", "4", "0", "0",
      "0", "0", " ", "a", "*", "/", " ", "b", "*", "/">>

ExStitched ==
    <<"/", "*", "!", "5", "0", "0", "0", "3", " ", "a", "NL", "b", " ", "*",
      "/", " ", "c", " ", "/", "*", "!", "5", "0", "0", "0", "3", " ", "d",
      " ", "*", "/", " ", "e", "NL", "f">>

ExSlashStarSlash ==
    <<"/", "*", "!", "5", "0", "0", "0", "3", "/", "*", "/", " ", "a", " ",
      "*", "/", " ", "b", " ", "*", "/", " ", "c">>

ExStarSlashStar ==
    <<"/", "*", "!", "5", "0", "0", "0", "3", " ", "a", " ", "*", "/", "*",
      " ", "b">>

ExSplitNested ==
    <<"/", "*", "!", "0", "/", "*", "*", "/", "*", "/">>

Examples ==
    { ExLegacy, ExCurrent, ExLegacyAmid, ExCurrentAmid, ExLeadingZeroLegacy,
      ExLeadingZeroCurrent, ExNested, ExLookalike,
      ExSplit, ExSplitLines,
      ExTruncated, ExMultiple, ExLineComment, ExInnerVersioned,
      ExStitched, ExSlashStarSlash, ExStarSlashStar }

\* a versioned comment of the given version around the given content
Versioned(digits, inner) == Opener \o digits \o inner \o Closer

Legacy79999 == <<"7", "9", "9", "9", "9">>

Current80000 == <<"8", "0", "0", "0", "0">>

Plain == { <<>>, <<"a">> }

\* one-line texts that hold two versioned comments
TwoComments ==
    { a \o Versioned(v1, <<"B">>) \o b \o Versioned(v2, <<"D">>) \o c :
        a \in Plain, b \in Plain, c \in Plain,
        v1 \in {Legacy79999, Current80000},
        v2 \in {Legacy79999, Current80000} }

Texts == TextsOver(Tokens, MaxTokens) \cup Examples \cup TwoComments

FeedTexts ==
    TextsOver(FeedTokens, MaxFeedTokens) \cup {ExSplit, ExSplitNested}

\* the chunks of text t cut after the positions of `cuts`
RECURSIVE ChunksAt(_, _, _)
ChunksAt(t, cuts, from) ==
    IF from > Len(t) THEN <<>>
    ELSE LET later == { c \in cuts : c >= from }
             e == IF later = {} THEN Len(t)
                  ELSE CHOOSE c \in later : \A d \in later : c <= d
         IN <<SubSeq(t, from, e)>> \o ChunksAt(t, cuts, e + 1)

\* every way of cutting t into non-empty chunks with at most n boundaries
Cuttings(t, n) ==
    { ChunksAt(t, cuts, 1) :
        cuts \in { c \in SUBSET (1..(Len(t) - 1)) : Cardinality(c) <= n } }

(***************************************************************************)
(* State.                                                                  *)
(***************************************************************************)
VARIABLES
    text,       \* the text of the input of the current run
    fin,        \* the chunks fin.readline() has still to return
    out,        \* what has been written to fout in the current run
    line,       \* process_dump_stream's local `line`
    pos,        \* its local `pos`
    idx,        \* its local `idx`
    comment,    \* its local `comment`, the pending buffer
    pc,         \* where the run is: read, scan, match, done, returned
    done_reports, \* how many times "100.0%... done." was printed in this run
    run,        \* 1 for the first run, 2 for the run that follows it
    text1,      \* the input text of the first run
    chunks1,    \* the chunks the first run was given
    out1,       \* the output of the first run
    closed_at,  \* history: how much of `text` lies in front of the tail that
                \* followed the last comment closed in this run
    opened_at   \* history: how much of `text` lies in front of the opener of
                \* the pending buffer, None before the first one

\* what no step of a run changes: its input and the record of the first run
input == <<text, run, text1, chunks1, out1>>

vars == <<text, fin, out, line, pos, idx, comment, pc, done_reports, run,
          text1, chunks1, out1, closed_at, opened_at>>

Start(t, chunks) ==
    /\ text = t
    /\ fin = chunks
    /\ out = <<>>
    /\ line = <<>>
    /\ pos = 0
    /\ idx = None
    /\ comment = <<>>
    /\ pc = "read"
    /\ done_reports = 0
    /\ closed_at = 0
    /\ opened_at = None

\* the input file holds one of the texts, read line by line
Init ==
    /\ \E t \in Texts : Start(t, readlines(t))
    /\ run = 1
    /\ text1 = text
    /\ chunks1 = fin
    /\ out1 = <<>>

\* the scanner is fed one of the texts, cut into chunks anywhere
InitFeed ==
    /\ \E t \in FeedTexts :
          \E chunks \in Cuttings(t, MaxCuts) : Start(t, chunks)
    /\ run = 1
    /\ text1 = text
    /\ chunks1 = fin
    /\ out1 = <<>>

(***************************************************************************)
(* process_dump_stream.                                                    *)
(***************************************************************************)
\* line = fin.readline() returned a line: scan it from pos = 0
ReadLine ==
    /\ pc = "read"
    /\ fin # <<>>
    /\ line' = Head(fin)
    /\ fin' = Tail(fin)
    /\ pos' = 0
    /\ pc' = "scan"
    /\ UNCHANGED <<input, out, idx, comment, done_reports, closed_at, opened_at>>

\* line = fin.readline() returned "": leave the loop, print the final report
EndOfInput ==
    /\ pc = "read"
    /\ fin = <<>>
    /\ pc' = "done"
    /\ done_reports' = done_reports + 1
    /\ UNCHANGED <<input, fin, out, line, pos, idx, comment, closed_at, opened_at>>

\* NoOpener with the slice starting one character late
NoOpener_late ==
    /\ pc = "scan"
    /\ find_from(line, pos) = 0 - 1
    /\ idx' = 0 - 1
    /\ out' = out \o SliceFrom(line, pos + 1)
    /\ pc' = "read"
    /\ UNCHANGED <<input, fin, line, pos, comment, done_reports, closed_at, opened_at>>

\* idx == -1: write the rest of the line, go and read the next one
NoOpener ==
    /\ pc = "scan"
    /\ find_from(line, pos) = 0 - 1
    /\ idx' = 0 - 1
    /\ out' = out \o SliceFrom(line, pos)
    /\ pc' = "read"
    /\ UNCHANGED <<input, fin, line, pos, comment, done_reports, closed_at, opened_at>>

\* Lookalike that writes the text in front of the "/*!" and drops the "/*!"
Lookalike_dropped ==
    /\ pc = "scan"
    /\ LET i == find_from(line, pos) IN
        /\ i # 0 - 1
        /\ digit_run_end(line, i + 3) = i + 3
        /\ idx' = i
        /\ out' = out \o Slice(line, pos, i)
        /\ pos' = i + 3
    /\ UNCHANGED <<input, fin, line, comment, pc, done_reports, closed_at, opened_at>>

\* Lookalike that writes up to the "/*!" and scans on from where it found it
Lookalike_stuck ==
    /\ pc = "scan"
    /\ LET i == find_from(line, pos) IN
        /\ i # 0 - 1
        /\ digit_run_end(line, i + 3) = i + 3
        /\ idx' = i
        /\ out' = out \o Slice(line, pos, i + 3)
        /\ pos' = i
    /\ UNCHANGED <<input, fin, line, comment, pc, done_reports, closed_at, opened_at>>

\* Lookalike that resumes one character early, on the "!" it has written
Lookalike_early ==
    /\ pc = "scan"
    /\ LET i == find_from(line, pos) IN
        /\ i # 0 - 1
        /\ digit_run_end(line, i + 3) = i + 3
        /\ idx' = i
        /\ out' = out \o Slice(line, pos, i + 3)
        /\ pos' = i + 2
    /\ UNCHANGED <<input, fin, line, comment, pc, done_reports, closed_at, opened_at>>

\* "/*!" with no digit after it: write up to and including it, scan on
Lookalike ==
    /\ pc = "scan"
    /\ LET i == find_from(line, pos) IN
        /\ i # 0 - 1
        /\ digit_run_end(line, i + 3) = i + 3
        /\ idx' = i
        /\ out' = out \o Slice(line, pos, i + 3)
        /\ pos' = i + 3
    /\ UNCHANGED <<input, fin, line, comment, pc, done_reports, closed_at, opened_at>>

\* OpenComment that starts the pending buffer at the scan position, in
\* front of the opener
OpenComment_from_pos ==
    /\ pc = "scan"
    /\ LET i == find_from(line, pos) IN
        /\ i # 0 - 1
        /\ digit_run_end(line, i + 3) # i + 3
        /\ idx' = i
        /\ comment' = SliceFrom(line, pos)
        /\ opened_at' = Len(text) - Len(Flatten(fin)) - Len(line) + i
    /\ pc' = "match"
    /\ UNCHANGED <<input, fin, out, line, pos, done_reports, closed_at>>

\* "/*!<digits>" at idx: the pending buffer starts as the rest of the line
OpenComment ==
    /\ pc = "scan"
    /\ LET i == find_from(line, pos) IN
        /\ i # 0 - 1
        /\ digit_run_end(line, i + 3) # i + 3
        /\ idx' = i
        /\ comment' = SliceFrom(line, i)
        /\ opened_at' = Len(text) - Len(Flatten(fin)) - Len(line) + i
    /\ pc' = "match"
    /\ UNCHANGED <<input, fin, out, line, pos, done_reports, closed_at>>

\* rewritten with the comparison off by one: version 80000 counts as legacy
rewritten_le(cmt, end_pos, digits_end) ==
    IF version_of(Slice(cmt, 3, digits_end)) <= version_threshold
    THEN Slice(cmt, digits_end, end_pos)
    ELSE Slice(cmt, 0, end_pos + 2)

\* what is written for a matched comment: the inner content, or the whole span
rewritten(cmt, end_pos, digits_end) ==
    IF version_of(Slice(cmt, 3, digits_end)) < version_threshold
    THEN Slice(cmt, digits_end, end_pos)
    ELSE Slice(cmt, 0, end_pos + 2)

\* Rewrite that goes back to reading, the tail after the closer forgotten
Rewrite_tail_lost ==
    /\ pc = "match"
    /\ LET r == find_conditional_end(comment) IN
        /\ r.end_pos # None
        /\ out' = out \o Slice(line, pos, idx)
                      \o rewritten(comment, r.end_pos, r.digits_end)
        /\ line' = SliceFrom(comment, r.end_pos + 2)
        /\ closed_at' = Len(text) - Len(Flatten(fin))
                           - Len(SliceFrom(comment, r.end_pos + 2))
    /\ pos' = 0
    /\ pc' = "read"
    /\ UNCHANGED <<input, fin, idx, comment, done_reports, opened_at>>

\* the matcher found the closer: write the text before the comment and the
\* rewritten comment, and go on with the tail after the closer
Rewrite ==
    /\ pc = "match"
    /\ LET r == find_conditional_end(comment) IN
        /\ r.end_pos # None
        /\ out' = out \o Slice(line, pos, idx)
                      \o rewritten(comment, r.end_pos, r.digits_end)
        /\ line' = SliceFrom(comment, r.end_pos + 2)
        /\ closed_at' = Len(text) - Len(Flatten(fin))
                           - Len(SliceFrom(comment, r.end_pos + 2))
    /\ pos' = 0
    /\ pc' = "scan"
    /\ UNCHANGED <<input, fin, idx, comment, done_reports, opened_at>>

\* ReadMore with the buffer replaced by the new chunk instead of extended
ReadMore_replace ==
    /\ pc = "match"
    /\ find_conditional_end(comment).end_pos = None
    /\ fin # <<>>
    /\ comment' = Head(fin)
    /\ fin' = Tail(fin)
    /\ UNCHANGED <<input, out, line, pos, idx, pc, done_reports, closed_at, opened_at>>

\* no closer yet and the input has another chunk: append it to the buffer
ReadMore ==
    /\ pc = "match"
    /\ find_conditional_end(comment).end_pos = None
    /\ fin # <<>>
    /\ comment' = comment \o Head(fin)
    /\ fin' = Tail(fin)
    /\ UNCHANGED <<input, out, line, pos, idx, pc, done_reports, closed_at, opened_at>>

\* Truncated without the text in front of the opener
Truncated_buffer_only ==
    /\ pc = "match"
    /\ find_conditional_end(comment).end_pos = None
    /\ fin = <<>>
    /\ out' = out \o comment
    /\ pc' = "returned"
    /\ UNCHANGED <<input, fin, line, pos, idx, comment, done_reports,
                   closed_at, opened_at>>

\* no closer and the input is exhausted: write what there is, and return
Truncated ==
    /\ pc = "match"
    /\ find_conditional_end(comment).end_pos = None
    /\ fin = <<>>
    /\ out' = out \o Slice(line, pos, idx) \o comment
    /\ pc' = "returned"
    /\ UNCHANGED <<input, fin, line, pos, idx, comment, done_reports,
                   closed_at, opened_at>>

Finished == pc \in {"done", "returned"}

\* what the next run starts from
Restart(t, chunks) ==
    /\ text' = t
    /\ fin' = chunks
    /\ out' = <<>>
    /\ line' = <<>>
    /\ pos' = 0
    /\ idx' = None
    /\ comment' = <<>>
    /\ pc' = "read"
    /\ done_reports' = 0
    /\ closed_at' = 0
    /\ opened_at' = None
    /\ run' = 2
    /\ out1' = out
    /\ UNCHANGED <<text1, chunks1>>

\* main() is run again, on the file the first run wrote
Rerun ==
    /\ Finished
    /\ run = 1
    /\ Restart(out, readlines(out))

\* the scanner is fed the same text again, as a single chunk
FeedWhole ==
    /\ Finished
    /\ run = 1
    /\ Restart(text, IF text = <<>> THEN <<>> ELSE <<text>>)

Step ==
    \/ ReadLine
    \/ EndOfInput
    \/ NoOpener
    \/ Lookalike
    \/ OpenComment
    \/ Rewrite
    \/ ReadMore
    \/ Truncated

Next == Step \/ Rerun

NextFeed == Step \/ FeedWhole

Spec == Init /\ [][Next]_vars

SpecFeed == InitFeed /\ [][NextFeed]_vars

(***************************************************************************)
(* Vocabulary of the properties.                                           *)
(***************************************************************************)
IsSuffix(s, t) == Len(s) <= Len(t) /\ SubSeq(t, Len(t) - Len(s) + 1, Len(t)) = s

IsPrefix(s, t) == Len(s) <= Len(t) /\ SubSeq(t, 1, Len(s)) = s

\* s occurs in t as a contiguous stretch
Occurs(s, t) ==
    \E i \in 0..(Len(t) - Len(s)) : SubSeq(t, i + 1, i + Len(s)) = s

\* the pending buffer is a complete versioned comment followed by a tail:
\* "/*!", a run of decimal digits ending at d, then the closer the matcher
\* reports at e
Complete(cmt, d, e) ==
    /\ IsPrefix(Opener, cmt)
    /\ 3 < d /\ d <= e /\ e + 2 <= Len(cmt)
    /\ \A i \in 3..(d - 1) : At(cmt, i) \in DecimalDigits
    /\ ~isdigit(At(cmt, d))
    /\ e = find_conditional_end(cmt).end_pos

\* the step of process_dump_stream that writes a matched comment
RewriteStep == pc = "match" /\ pc' = "scan"

C1_Rewrite ==
    RewriteStep =>
        \A d \in 0..Len(comment) : \A e \in 0..Len(comment) :
            Complete(comment, d, e) =>
                LET value  == DecimalValue(Slice(comment, 3, d))
                    before == Slice(line, pos, idx)
                    inner  == Slice(comment, d, e)
                    span   == Slice(comment, 0, e + 2)
                IN /\ value < 80000 => out' = out \o before \o inner
                   /\ value >= 80000 => out' = out \o before \o span
                   /\ line' = SliceFrom(comment, e + 2)
                   /\ pos' = 0

C1_Boundary ==
    (run = 1 /\ Finished) =>
        /\ text = ExLegacy => out = <<" ", "X", " ">>
        /\ text = ExCurrent => out = ExCurrent
        /\ text = ExLegacyAmid => out = <<"a", " ", " ", "X", " ", " ", "b">>
        /\ text = ExCurrentAmid => out = ExCurrentAmid
        /\ text = ExLeadingZeroLegacy => out = <<" ", "X", " ">>
        /\ text = ExLeadingZeroCurrent => out = ExLeadingZeroCurrent

(***************************************************************************)
(* C1: a complete versioned comment whose digit run has a value below the  *)
(* threshold 80000 is written as its inner content alone, one whose value  *)
(* is 80000 or more is written whole, from "/*!" through the closer; the   *)
(* text before it is written unchanged in front and the text after the     *)
(* closer is what the scan goes on with. 79999 unwraps, 80000 is kept.     *)
(***************************************************************************)
C1_Threshold == [][C1_Rewrite]_vars /\ [](C1_Boundary)

\* a comment of version 79999 with text before and after it has just been
\* unwrapped
C1_Witness ==
    /\ pc = "scan" /\ pos = 0 /\ idx > 0 /\ line # <<>>
    /\ \E d \in 0..Len(comment) : \E e \in 0..Len(comment) :
        /\ Complete(comment, d, e)
        /\ DecimalValue(Slice(comment, 3, d)) = 79999
        /\ e > d
        /\ line = SliceFrom(comment, e + 2)
        /\ IsSuffix(Slice(comment, d, e), out)
        /\ ~IsSuffix(Slice(comment, 0, e), out)

RECURSIVE Tokenise(_)
\* a text cut left to right into tokens: "/*", "*/" or a single character
Tokenise(s) ==
    IF s = <<>> THEN <<>>
    ELSE IF Len(s) >= 2 /\ SubSeq(s, 1, 2) \in {<<"/", "*">>, <<"*", "/">>}
         THEN <<SubSeq(s, 1, 2)>> \o Tokenise(SubSeq(s, 3, Len(s)))
         ELSE <<SubSeq(s, 1, 1)>> \o Tokenise(SubSeq(s, 2, Len(s)))

\* the nesting depth in front of token i: openers less closers before it
DepthBefore(toks, i) ==
    Cardinality({ j \in 1..(i - 1) : toks[j] = <<"/", "*">> })
        - Cardinality({ j \in 1..(i - 1) : toks[j] = Closer })

\* the tokens that are "*/" at depth 0
ClosersAtDepth0(toks) ==
    { i \in 1..Len(toks) : toks[i] = Closer /\ DepthBefore(toks, i) = 0 }

\* the number of characters in front of token i
RECURSIVE OffsetOf(_, _)
OffsetOf(toks, i) ==
    IF i <= 1 THEN 0 ELSE OffsetOf(toks, i - 1) + Len(toks[i - 1])

(***************************************************************************)
(* C2: the closer find_conditional_end reports is the first "*/" token met *)
(* at nesting depth 0 from the end of the digit run on: every "/*" token   *)
(* raises the depth, a "*/" token at depth > 0 lowers it and does not end  *)
(* the comment. So an ordinary block comment nested in a legacy versioned  *)
(* comment is written untouched, as part of the inner content.             *)
(***************************************************************************)
C2_FirstCloserAtDepth0 ==
    /\ pc = "match" =>
          LET r    == find_conditional_end(comment)
              toks == Tokenise(SliceFrom(comment, r.digits_end))
              cl   == ClosersAtDepth0(toks)
          IN /\ r.digits_end # None
             /\ cl = {} => r.end_pos = None
             /\ cl # {} =>
                   LET first == CHOOSE i \in cl : \A j \in cl : i <= j
                   IN r.end_pos = r.digits_end + OffsetOf(toks, first)
    /\ (run = 1 /\ Finished /\ text = ExNested) =>
          out = <<" ", "B", "E", "G", "I", "N", " ", "/", "*", " ", "n", "o",
                  "t", "e", " ", "*", "/", " ", "E", "N", "D", " ">>

\* the matcher reports a closer that lies behind a "*/" it met at depth > 0
C2_Witness ==
    /\ pc = "match"
    /\ LET r == find_conditional_end(comment) IN
        /\ r.end_pos # None
        /\ Occurs(Closer, Slice(comment, r.digits_end, r.end_pos))
        /\ version_of(Slice(comment, 3, r.digits_end)) < version_threshold

\* the positions after which the chunks of a cutting end, the last left out
RECURSIVE Boundaries(_)
Boundaries(chunks) ==
    IF Len(chunks) <= 1 THEN {}
    ELSE LET front == SubSeq(chunks, 1, Len(chunks) - 1)
         IN Boundaries(front) \cup {Len(Flatten(front))}

\* the indices of t where a "/*!" starts
OpenersIn(t) == { p \in 0..(Len(t) - 3) : Slice(t, p, p + 3) = Opener }

\* boundary b (the number of characters in front of it) falls inside the
\* "/*!" that starts at p, or between it and a digit that follows it
SplitsOpener(t, b, p) ==
    \/ p < b /\ b < p + 3
    \/ b = p + 3 /\ b < Len(t) /\ isdigit(At(t, b))

\* no boundary of the cutting touches an opener of the text
OpenersWhole(t, chunks) ==
    \A b \in Boundaries(chunks) : \A p \in OpenersIn(t) : ~SplitsOpener(t, b, p)

\* the first run was fed the chunks, the second the whole text at once
BothFed == run = 2 /\ Finished

TruncatedStep == pc = "match" /\ pc' = "returned"

\* the input from the end of the last closed comment on: the current line up
\* to the opener, then the pending buffer
SinceLastClosed == Slice(line, 0, idx) \o comment

C4_Write ==
    TruncatedStep =>
        /\ find_conditional_end(comment).end_pos = None
        /\ fin = <<>>
        /\ out' = out \o Slice(line, pos, idx) \o comment

C4_Final ==
    pc = "returned" =>
        /\ IsSuffix(SinceLastClosed, text)
        /\ IsSuffix(SinceLastClosed, out)
        /\ IsSuffix(SliceFrom(text, closed_at), out)
        /\ (run = 1 /\ text = ExTruncated) => out = ExTruncated

(***************************************************************************)
(* C4: when the input is exhausted while the matcher finds no depth-0 "*/" *)
(* in the pending buffer, process_dump_stream writes the unwritten text in *)
(* front of the opener and then the whole pending buffer as it is,         *)
(* whatever its version, and returns; all the input from the last closed   *)
(* comment to the end of input stands at the end of the output, unchanged  *)
(* and in order.                                                           *)
(***************************************************************************)
C4_TruncatedLossless == [][C4_Write]_vars /\ [](C4_Final)

\* the run has returned on an unterminated legacy comment that spans several
\* lines and has text in front of it
C4_Witness ==
    /\ pc = "returned"
    /\ idx > 0
    /\ Len(comment) > Len(line) - idx
    /\ version_of(Slice(comment, 3, find_conditional_end(comment).digits_end))
          < version_threshold
    /\ IsSuffix(SinceLastClosed, out)

(***************************************************************************)
(* C5: for every input, of any number of lines, that holds no "/*!", the   *)
(* output of process_dump_stream equals the input.                         *)
(***************************************************************************)
C5_IdentityOnAbsence ==
    (run = 1 /\ Finished /\ ~Occurs(Opener, text)) => (pc = "done" /\ out = text)

\* a finished run over several lines that hold "/*" and "!" but no "/*!"
C5_Witness ==
    /\ run = 1 /\ pc = "done"
    /\ ~Occurs(Opener, text)
    /\ Occurs(<<"/", "*">>, text)
    /\ Len(chunks1) >= 2
    /\ out = text

\* the step of process_dump_stream that passes a "/*!" without digits
LookalikeStep == pc = "scan" /\ pc' = "scan"

\* the first "/*!" of the line at or after pos starts at i
FirstOpenerAt(i) ==
    /\ pos <= i /\ i + 3 <= Len(line)
    /\ Slice(line, i, i + 3) = Opener
    /\ \A h \in pos..(i - 1) : Slice(line, h, h + 3) # Opener

\* no digit stands right after index i + 2 of the line
NoDigitAfter(i) == i + 3 >= Len(line) \/ ~isdigit(At(line, i + 3))

C6_Step ==
    \A i \in 0..Len(line) :
        (pc = "scan" /\ FirstOpenerAt(i) /\ NoDigitAfter(i)) =>
            /\ pc' = "scan"
            /\ out' = out \o Slice(line, pos, i) \o Opener
            /\ pos' = i + 3
            /\ line' = line

\* every "/*!" of the text is a lookalike: no digit follows it
OnlyLookalikes(t) ==
    \A p \in OpenersIn(t) : p + 3 >= Len(t) \/ ~isdigit(At(t, p + 3))

C6_Final ==
    (run = 1 /\ Finished /\ OnlyLookalikes(text)) => (pc = "done" /\ out = text)

(***************************************************************************)
(* C6: a "/*!" that no digit follows immediately is not treated as a       *)
(* versioned comment: its three characters are written as literal text,    *)
(* the scan resumes right after them, and the lookalike comment reaches    *)
(* the output character for character.                                     *)
(***************************************************************************)
C6_Lookalike == [][C6_Step]_vars /\ [](C6_Final)

\* a lookalike has just been passed: its "/*!" ends the output and the scan
\* stands right after it, with more of the line to come
C6_Witness ==
    /\ pc = "scan" /\ idx >= 0 /\ pos = idx + 3 /\ pos < Len(line)
    /\ Slice(line, idx, pos) = Opener
    /\ ~isdigit(At(line, pos))
    /\ IsSuffix(Opener, out)

\* the least index >= from where s starts in t, or None
RECURSIVE IndexOf(_, _, _)
IndexOf(s, t, from) ==
    IF from + Len(s) > Len(t) THEN None
    ELSE IF Slice(t, from, from + Len(s)) = s THEN from
    ELSE IndexOf(s, t, from + 1)

\* the ordinary block comments of a text: from a "/*" that no "!" follows
\* through the first "*/" after it
BlockComments(t) ==
    { Slice(t, p, IndexOf(Closer, t, p + 2) + 2) :
        p \in { q \in 0..(Len(t) - 4) :
                  /\ Slice(t, q, q + 2) = <<"/", "*">>
                  /\ At(t, q + 2) # "!"
                  /\ IndexOf(Closer, t, q + 2) # None } }

\* the line comments of a text: from a "#" to the end of its line
LineComments(t) ==
    { Slice(t, p, IF IndexOf(<<"NL">>, t, p) = None THEN Len(t)
                  ELSE IndexOf(<<"NL">>, t, p)) :
        p \in { q \in 0..(Len(t) - 1) : At(t, q) = "#" } }

\* C7 as claimed: every ordinary block comment and every line comment of the
\* input stands in the output as it is, whatever characters it contains
C7_CommentsPassThrough ==
    (run = 1 /\ Finished) =>
        \A c \in BlockComments(text) \cup LineComments(text) : Occurs(c, out)

C8_Resume ==
    RewriteStep =>
        /\ fin' = fin
        /\ line' = SliceFrom(comment, find_conditional_end(comment).end_pos + 2)
        /\ pos' = 0

\* what a self-contained versioned comment is rewritten to
Rewritten(digits, inner) ==
    IF DecimalValue(digits) < 80000 THEN inner ELSE Versioned(digits, inner)

C8_Each ==
    (run = 1 /\ Finished) =>
        /\ \A a \in Plain, b \in Plain, c \in Plain :
             \A v1 \in {Legacy79999, Current80000} :
               \A v2 \in {Legacy79999, Current80000} :
                 text = a \o Versioned(v1, <<"B">>) \o b
                          \o Versioned(v2, <<"D">>) \o c
                 => out = a \o Rewritten(v1, <<"B">>) \o b
                            \o Rewritten(v2, <<"D">>) \o c
        /\ text = ExMultiple =>
             out = <<"A", " ", " ", "B", " ", " ", "C", " ", "/", "*", "!",
                     "8", "0", "0", "1", "0", " ", "D", " ", "*", "/", " ",
                     "E">>

(***************************************************************************)
(* C8: one chunk may hold several versioned comments: after a comment is   *)
(* rewritten the scan resumes right after its closer on the same text,     *)
(* with no read in between, and each further comment is classified by its  *)
(* own version and rewritten on its own, in input order, the text between  *)
(* them kept: "A /*!50003 B */ C /*!80010 D */ E" gives                    *)
(* "A  B  C /*!80010 D */ E".                                              *)
(***************************************************************************)
C8_SeveralPerChunk == [][C8_Resume]_vars /\ [](C8_Each)

\* the run over the example line has finished: the first comment unwrapped,
\* the second kept, both from the single chunk read
C8_Witness ==
    /\ run = 1 /\ pc = "done"
    /\ text = ExMultiple
    /\ Len(chunks1) = 1
    /\ closed_at = 31
    /\ Occurs(<<"A", " ", " ", "B", " ", " ", "C", " ", "/", "*", "!">>, out)

\* a complete versioned comment that the code classifies as legacy starts
\* somewhere in the text
ContainsLegacy(t) ==
    \E p \in OpenersIn(t) :
        LET r == find_conditional_end(SliceFrom(t, p)) IN
        /\ r.end_pos # None
        /\ version_of(Slice(SliceFrom(t, p), 3, r.digits_end))
              < version_threshold

\* a complete versioned comment of version 80000 or more starts in the text
ContainsCurrent(t) ==
    \E p \in OpenersIn(t) :
        LET r == find_conditional_end(SliceFrom(t, p)) IN
        /\ r.end_pos # None
        /\ version_of(Slice(SliceFrom(t, p), 3, r.digits_end))
              >= version_threshold

\* the program has been run on a text and then on its own output
RunTwice == run = 2 /\ Finished

(***************************************************************************)
(* C9: for every text that holds no legacy versioned comment, running the  *)
(* transform on the transform's output gives what running it once gives.   *)
(***************************************************************************)
C9_Idempotent == (RunTwice /\ ~ContainsLegacy(text1)) => out = out1

\* both runs are over, on a text with a current comment, a lookalike and no
\* legacy comment
C9_Witness ==
    /\ RunTwice
    /\ ~ContainsLegacy(text1)
    /\ ContainsCurrent(text1)
    /\ \E p \in OpenersIn(text1) :
          p + 3 >= Len(text1) \/ ~isdigit(At(text1, p + 3))
    /\ out = out1

\* C10 as claimed: the output holds no complete versioned comment of a
\* version below the threshold, outside the comments kept as they are: the
\* scan of the output, which steps over those, meets none
C10_NoLegacyLeft ==
    (run = 2 /\ pc = "match") =>
        LET r == find_conditional_end(comment) IN
        ~(/\ r.end_pos # None
          /\ version_of(Slice(comment, 3, r.digits_end)) < version_threshold)

\* C11 as claimed: every run that returns, the one that ends on a truncated
\* versioned comment included, has written the final line "100.0%... done."
\* exactly once by the time it is over
C11_DoneReported == (run = 1 /\ Finished) => done_reports = 1

\* the logical cursor: how many characters of `text` have been written or
\* dropped; what was read and is not written yet is line[pos:] while a
\* chunk is scanned, line[pos:idx] and the pending buffer while a closer is
\* looked for
Cursor ==
    LET read == Len(text) - Len(Flatten(fin)) IN
    CASE pc = "scan"  -> read - Len(line) + pos
      [] pc = "match" -> opened_at - (idx - pos)
      [] OTHER        -> read

\* what a step appends to the output
Written == SliceFrom(out', Len(out))

\* a versioned comment of a version below the threshold starts at index a of
\* the text and its matching closer ends just before index b
LegacySpan(a, b) ==
    LET cmt == SliceFrom(text, a)
        r   == find_conditional_end(cmt)
    IN /\ IsPrefix(Opener, cmt)
       /\ r.digits_end # None
       /\ r.end_pos # None
       /\ a + r.end_pos + 2 = b
       /\ version_of(Slice(cmt, 3, r.digits_end)) < version_threshold

\* the text between indices a and b less the "/*!<digits>" and the closing
\* "*/" of the legacy comment that fills it
InnerOf(a, b) ==
    LET cmt == SliceFrom(text, a)
        r   == find_conditional_end(cmt)
    IN Slice(cmt, r.digits_end, r.end_pos)

(***************************************************************************)
(* C12: the cursor stays within the text and never moves back, the output  *)
(* is only ever appended to and is never longer than the text in front of  *)
(* the cursor, and what a step appends is the text the cursor passes over, *)
(* character for character and in order, less the "/*!<digits>" and the    *)
(* matching "*/" of a legacy versioned comment when the cursor passes      *)
(* over one; when the run is over the cursor is at the end of the text.    *)
(* So no character is written twice, out of order or out of nowhere, and   *)
(* the only ones left out are those delimiters.                            *)
(***************************************************************************)
C12_CursorAndOutput ==
    /\ [](/\ 0 <= Cursor /\ Cursor <= Len(text)
          /\ Len(out) <= Cursor
          /\ Finished => Cursor = Len(text))
    /\ [][run' = run =>
            /\ Cursor <= Cursor'
            /\ IsPrefix(out, out')
            /\ \/ Written = Slice(text, Cursor, Cursor')
               \/ \E a \in Cursor..Cursor' :
                     /\ LegacySpan(a, Cursor')
                     /\ Written = Slice(text, Cursor, a) \o InnerOf(a, Cursor')
          ]_vars

\* a run is over that has dropped the delimiters of two legacy comments and
\* written text before, between and after them
C12_Witness ==
    /\ run = 1 /\ pc = "done"
    /\ Len(out) + 6 < Len(text)
    /\ \E a, b \in 1..Len(text) : \E c, d \in 1..Len(text) :
          /\ LegacySpan(a, b) /\ b < c /\ LegacySpan(c, d) /\ d < Len(text)
          /\ out = Slice(text, 0, a) \o InnerOf(a, b) \o Slice(text, b, c)
                     \o InnerOf(c, d) \o SliceFrom(text, d)

\* a step of the run that reads a chunk
ReadsChunk == run' = run /\ fin' # fin

\* Idle: no buffer is pending, and the current chunk or tail has been
\* written to its end and holds no opener from the scan position on
IdleAtChunkEnd ==
    /\ pc = "read"
    /\ find_from(line, pos) = None
    /\ IsSuffix(SliceFrom(line, pos), out)

\* Accumulating: the matcher finds no closer in the whole pending buffer
AccumulatingUnmatched ==
    /\ pc = "match"
    /\ find_conditional_end(comment).end_pos = None

\* a versioned comment starts at index i of the current text, at or after
\* the scan position, and its closer is in that text too
ClosedCommentAt(i) ==
    /\ pc = "scan"
    /\ pos <= i
    /\ IsPrefix(Opener, SliceFrom(line, i))
    /\ digit_run_end(line, i + 3) # i + 3
    /\ find_conditional_end(SliceFrom(line, i)).end_pos # None

\* the indices of the current text, from the scan position on, where a
\* versioned comment starts
VersionedAhead ==
    { i \in pos..Len(line) : /\ IsPrefix(Opener, SliceFrom(line, i))
                             /\ digit_run_end(line, i + 3) # i + 3 }

\* the next versioned comment of the current text has its closer there
NextCommentClosed ==
    \E i \in VersionedAhead :
        (\A j \in VersionedAhead : i <= j) /\ ClosedCommentAt(i)

\* some versioned comment of the current text, maybe one that lies inside
\* another, has its closer there
SomeCommentClosed == \E i \in pos..Len(line) : ClosedCommentAt(i)

\* the steps of a run in the order the Chunk Stitcher keeps: when a chunk is
\* read, what becomes of it, and no read while `ahead` holds
ReadOrdering(ahead) ==
    /\ ReadsChunk =>
         /\ fin' = Tail(fin)
         /\ \/ /\ IdleAtChunkEnd
               /\ line' = Head(fin) /\ pos' = 0 /\ pc' = "scan"
               /\ comment' = comment
            \/ /\ AccumulatingUnmatched
               /\ comment' = comment \o Head(fin) /\ pc' = "match"
               /\ line' = line /\ pos' = pos /\ idx' = idx
         /\ out' = out
    /\ (run' = run /\ pc = "match"
          /\ find_conditional_end(comment).end_pos # None) =>
         /\ line' = SliceFrom(comment,
                              find_conditional_end(comment).end_pos + 2)
         /\ pos' = 0 /\ pc' = "scan" /\ fin' = fin
    /\ (run' = run /\ pc = "scan" /\ ahead) =>
         /\ fin' = fin
         /\ pc' \in {"scan", "match"}
         /\ pc' = "match" => find_conditional_end(comment').end_pos # None

\* C13 as claimed: a chunk is read only in Idle, once the current chunk or
\* tail is written to its end with no opener left, or in Accumulating, right
\* after the matcher failed on the whole pending buffer, to which it is
\* appended; after a match the text behind the closer is the current chunk,
\* and every versioned comment in it whose closer is there is rewritten
\* before any further read
C13_EveryClosedComment == [][ReadOrdering(SomeCommentClosed)]_vars

(***************************************************************************)
(* C13: a chunk is read only in Idle, once the current chunk or tail is    *)
(* written to its end with no opener left in it, and it becomes the        *)
(* current chunk, or in Accumulating, right after the matcher found no     *)
(* closer in the whole pending buffer, and then it is appended to that     *)
(* buffer and the matcher runs next on the whole of it. When the matcher   *)
(* finds the closer, the text after it becomes the current chunk without   *)
(* a read, and no chunk is read while the next versioned comment of the    *)
(* current text, one that lies in no other, has its closer there.          *)
(***************************************************************************)
C13_ReadOrdering == [][ReadOrdering(NextCommentClosed)]_vars

\* the first comment of the text was closed by a chunk read in Accumulating
\* and the second one, in the tail, is matched while a chunk remains to read
C13_Witness ==
    /\ run = 1 /\ text = ExStitched
    /\ pc = "match" /\ closed_at > 0 /\ opened_at >= closed_at
    /\ find_conditional_end(comment).end_pos # None
    /\ fin # <<>>

\* the text from the opener of the pending buffer to the end of the input
FromOpener == SliceFrom(text, opened_at)

(***************************************************************************)
(* C14: while a versioned comment is pending, the buffer and the chunks    *)
(* not read yet make up the text from its opener to the end of the input,  *)
(* and as soon as the matcher finds a closer in the buffer, the end of the *)
(* digit run, the version and the closer it gives, which are the ones the  *)
(* rewrite uses, are those it gives on that whole text; a closer that is   *)
(* in that text is not missed at the end of input. This holds wherever the *)
(* chunks after the opener are cut, inside the digit run, a "/*" or a "*/" *)
(* included.                                                               *)
(***************************************************************************)
C14_MatchAcrossChunks ==
    pc = "match" =>
        LET r     == find_conditional_end(comment)
            whole == find_conditional_end(FromOpener)
        IN /\ comment \o Flatten(fin) = FromOpener
           /\ r.end_pos # None =>
                 /\ r.digits_end = whole.digits_end
                 /\ r.end_pos = whole.end_pos
                 /\ version_of(Slice(comment, 3, r.digits_end))
                       = version_of(Slice(FromOpener, 3, whole.digits_end))
           /\ (r.end_pos = None /\ fin = <<>>) => whole.end_pos = None

\* the closer is found in a buffer put together from chunks cut inside the
\* digit run and inside the closing "*/"
C14_Witness ==
    /\ run = 1 /\ pc = "match"
    /\ LET r == find_conditional_end(comment) IN
        /\ r.end_pos # None
        /\ \E b \in Boundaries(chunks1) :
              opened_at + 3 < b /\ b < opened_at + r.digits_end
        /\ opened_at + r.end_pos + 1 \in Boundaries(chunks1)

\* the closer is found in a buffer put together from chunks cut inside a
\* nested "/*"
C14_WitnessNested ==
    /\ run = 1 /\ pc = "match"
    /\ LET r == find_conditional_end(comment) IN
        /\ r.end_pos # None
        /\ \E b \in Boundaries(chunks1) :
              /\ opened_at + r.digits_end < b /\ b < opened_at + r.end_pos
              /\ Slice(text, b - 1, b + 1) = <<"/", "*">>

\* the two-character window the token loop tests at index k
Window(cmt, k) == Slice(cmt, k, k + 2)

IsToken(two) == two \in {<<"/", "*">>, Closer}

\* the iterations of the token loop in the matcher's run on the buffer
Visits(cmt) == scan_visits(cmt, digit_run_end(cmt, 3), 0)

\* the run of the token loop ended at a "*/" met at depth 0
EndsAtCloser(cmt) ==
    LET v == Visits(cmt) IN
    /\ v # <<>>
    /\ v[Len(v)].depth = 0
    /\ Window(cmt, v[Len(v)].k) = Closer

(***************************************************************************)
(* C15: the token loop of find_conditional_end starts at the end of the    *)
(* digit run and goes from each index it visits to the one 2 further when  *)
(* the window there is "/*" or "*/", and 1 further otherwise; so the       *)
(* indices it visits are where the tokens of the left-to-right cutting     *)
(* into "/*", "*/" and single characters start, at even and odd offsets    *)
(* alike, and the second character of a "/*" or "*/" is never visited. The *)
(* closer it returns is where it stops. After the digit run, "/*/" is a    *)
(* nested opener followed by a plain "/", and "*/*" at depth 0 is the      *)
(* closer followed by a plain "*".                                         *)
(***************************************************************************)
C15_TokenScan ==
    /\ pc = "match" =>
          LET d    == digit_run_end(comment, 3)
              v    == Visits(comment)
              toks == Tokenise(SliceFrom(comment, d))
              r    == find_conditional_end(comment)
          IN /\ v # <<>> => v[1].k = d
             /\ \A i \in 1..(Len(v) - 1) :
                   v[i + 1].k = v[i].k
                       + (IF IsToken(Window(comment, v[i].k)) THEN 2 ELSE 1)
             /\ \A i \in 1..Len(v) :
                   /\ i <= Len(toks)
                   /\ v[i].k = d + OffsetOf(toks, i)
             /\ \A i, j \in 1..Len(v) :
                   IsToken(Window(comment, v[i].k)) => v[j].k # v[i].k + 1
             /\ r.end_pos # None <=> EndsAtCloser(comment)
             /\ r.end_pos # None => r.end_pos = v[Len(v)].k
    /\ (run = 1 /\ Finished /\ text = ExSlashStarSlash) =>
          out = <<"/", "*", "/", " ", "a", " ", "*", "/", " ", "b", " ", " ",
                  "c">>
    /\ (run = 1 /\ Finished /\ text = ExStarSlashStar) =>
          out = <<" ", "a", " ", "*", " ", "b">>

\* the matcher found the closer after a "/*/" and recognised tokens at an
\* even and at an odd offset from the end of the digit run
C15_Witness ==
    /\ pc = "match"
    /\ LET d == digit_run_end(comment, 3)
           v == Visits(comment)
       IN /\ EndsAtCloser(comment)
          /\ Occurs(<<"/", "*", "/">>, SliceFrom(comment, d))
          /\ \E i, j \in 1..Len(v) :
                /\ IsToken(Window(comment, v[i].k))
                /\ IsToken(Window(comment, v[j].k))
                /\ (v[i].k - d) % 2 = 0
                /\ (v[j].k - d) % 2 = 1

\* how far a run is from its end: the characters in front of the cursor
\* and the chunks still to read, and within those the place in the loops
Measure ==
    (Len(text) - Cursor) + 4 * Len(fin)
        + (CASE pc = "scan"  -> 3
             [] pc = "match" -> 2
             [] pc = "read"  -> 1
             [] OTHER        -> 0)

\* what one iteration of the scan loop of a chunk does: it finishes the
\* chunk, moves the position forward past a lookalike, hands a versioned
\* comment to the matcher, replaces the current text by the tail after the
\* closer, shorter than it unless chunks were added to the buffer, reads
\* one more chunk, or returns at the end of input
ScanLoopProgress ==
    /\ pc = "scan" =>
          \/ pc' = "read"
          \/ pc' = "scan" /\ line' = line /\ pos < pos' /\ pos' <= Len(line)
          \/ pc' = "match" /\ fin' = fin
    /\ pc = "match" =>
          \/ /\ pc' = "scan" /\ pos' = 0 /\ fin' = fin
             /\ Len(line') < Len(comment)
             /\ Len(line') < Len(line) \/ Len(comment) > Len(line) - idx
          \/ pc' = "match" /\ Len(fin') < Len(fin)
          \/ pc' = "returned" /\ fin = <<>>
    /\ pc = "read" => (pc' = "scan" /\ Len(fin') < Len(fin)) \/ pc' = "done"

\* the matcher's loops stay inside the buffer and their index moves forward
MatcherProgress ==
    pc = "match" =>
        LET d == digit_run_end(comment, 3)
            v == Visits(comment)
        IN /\ 3 <= d /\ d <= Len(comment)
           /\ \A i \in 1..Len(v) : d <= v[i].k /\ v[i].k < Len(comment) - 1
           /\ \A i \in 1..(Len(v) - 1) : v[i].k < v[i + 1].k

(***************************************************************************)
(* C16: every run of process_dump_stream comes to its end: each step       *)
(* lowers a measure that is never negative and is 0 exactly when the run   *)
(* is over, made of the characters in front of the cursor, the chunks      *)
(* still to read and the place in the loops. An iteration of the scan loop *)
(* finishes the chunk, moves past a lookalike, replaces the current text   *)
(* by the tail after a closer, or reads one more chunk; and the index of   *)
(* each loop of find_conditional_end moves forward inside the buffer. So a *)
(* run takes no more steps than the measure of its first state.            *)
(***************************************************************************)
C16_Terminates ==
    /\ [](/\ Measure >= 0
          /\ Measure = 0 <=> Finished
          /\ MatcherProgress)
    /\ [][run' = run => (Measure' < Measure /\ ScanLoopProgress)]_vars

\* a run is over that went through a comment closed by a chunk read while
\* matching, a second comment in the tail and a last line
C16_Witness ==
    /\ run = 1 /\ pc = "done" /\ Measure = 0
    /\ Len(chunks1) >= 3
    /\ 0 < opened_at /\ opened_at < closed_at
    /\ Occurs(<<"NL">>, Slice(text, 0, opened_at))

\* C17 as claimed: every digit run the digit scan accepts parses as an
\* integer, so no versioned comment handed to the matcher takes the branch
\* that sets the version to 0 after a parse failure
C17_FallbackUnreachable ==
    LET r == find_conditional_end(comment) IN
    (pc = "match" /\ r.end_pos # None) =>
        ~ValueError(Slice(comment, 3, r.digits_end))

\* how many of the first n iterations of the token loop recognised `tok`
Recognised(cmt, tok, n) ==
    LET v == Visits(cmt) IN
    Cardinality({ i \in 1..n : Window(cmt, v[i].k) = tok })

(***************************************************************************)
(* C18: in every run of find_conditional_end the nesting depth is never    *)
(* negative: at each iteration it is the number of "/*" recognised so far  *)
(* less the number of "*/" recognised so far. Whenever a closer is         *)
(* returned, 3 < digits_end <= end_pos <= len(comment) - 2, the two        *)
(* characters at end_pos are "*/", the depth there is 0, and as many "/*"  *)
(* as "*/" were recognised between digits_end and end_pos.                 *)
(***************************************************************************)
C18_MatcherInvariants ==
    pc = "match" =>
        LET v == Visits(comment)
            r == find_conditional_end(comment)
        IN /\ \A i \in 1..Len(v) :
                 /\ v[i].depth >= 0
                 /\ v[i].depth = Recognised(comment, <<"/", "*">>, i - 1)
                                   - Recognised(comment, Closer, i - 1)
           /\ r.end_pos # None =>
                 /\ 3 < r.digits_end
                 /\ r.digits_end <= r.end_pos
                 /\ r.end_pos <= Len(comment) - 2
                 /\ Window(comment, r.end_pos) = Closer
                 /\ v # <<>>
                 /\ v[Len(v)].k = r.end_pos
                 /\ v[Len(v)].depth = 0
                 /\ Recognised(comment, <<"/", "*">>, Len(v) - 1)
                       = Recognised(comment, Closer, Len(v) - 1)

\* the matcher returns a closer after it went into a nested block comment
\* and came back out of it
C18_Witness ==
    /\ pc = "match"
    /\ EndsAtCloser(comment)
    /\ find_conditional_end(comment).end_pos # None
    /\ \E i \in 1..Len(Visits(comment)) : Visits(comment)[i].depth = 1
    /\ Recognised(comment, Closer, Len(Visits(comment)) - 1) >= 1

\* the pending buffer starts with "/*!" and at least one digit
StartsVersioned(cmt) ==
    /\ IsPrefix(Opener, cmt)
    /\ Len(cmt) > 3
    /\ isdigit(At(cmt, 3))

(***************************************************************************)
(* C19: every time process_dump_stream calls find_conditional_end, the     *)
(* pending buffer starts with "/*!" followed by at least one digit, so the *)
(* call does not return (None, None); and a chunk is added to the pending  *)
(* buffer only when the text after its digit run holds no "*/" at nesting  *)
(* depth 0.                                                                *)
(***************************************************************************)
C19_CallSitePrecondition ==
    /\ [](pc = "match" =>
            /\ StartsVersioned(comment)
            /\ find_conditional_end(comment).digits_end # None
            /\ find_conditional_end(comment).digits_end > 3)
    /\ [][(run' = run /\ pc = "match" /\ fin' # fin) =>
            /\ StartsVersioned(comment)
            /\ ClosersAtDepth0(Tokenise(SliceFrom(comment,
                                    digit_run_end(comment, 3)))) = {}
            /\ StartsVersioned(comment')
          ]_vars

\* the matcher is called on a buffer that grew by a chunk, opened behind a
\* lookalike of the same chunk
C19_Witness ==
    /\ pc = "match"
    /\ idx >= pos /\ pos > 0
    /\ Len(comment) > Len(line) - idx
    /\ StartsVersioned(comment)
    /\ find_conditional_end(comment).digits_end # None

====
